---- MODULE Spec2Model ----
(***************************************************************************)
(* A model of chartify's Chart class (chartify/_core/chart.py): chart      *)
(* construction and axis-type validation, the title / subtitle / source    *)
(* label setters, legend relocation, and the show / save export path with  *)
(* the headless-browser PNG rasterization.                                 *)
(*                                                                         *)
(* Python objects that the chart refers to (bokeh Title, Label and Legend  *)
(* annotations) live in a heap `objs`; an object's identity is its index.  *)
(* Only the attributes the Chart methods read or write are kept; colours,  *)
(* fonts and screen coordinates are left out.  The figure's `renderers`    *)
(* list holds only the annotations (bokeh also keeps axes and grids there, *)
(* which no Chart method touches).                                         *)
(***************************************************************************)
EXTENDS Integers, Sequences, FiniteSets, TLC

(***************************************************************************)
(* Bounds of the model.                                                    *)
(***************************************************************************)
\* Objects the heap may hold: every set_legend_location('outside_top')
\* allocates a new subtitle glyph.
MaxObjects == 5
\* Length of figure.renderers: every outside_* relocation of an existing
\* legend appends the legend once more.
MaxRenderers == 4
\* The browser's screenshot is k1 x k2 times the window size, k1, k2 in
\* 1..MaxScale (1 x 1: the screenshot already matches).
MaxScale == 2

(***************************************************************************)
(* Values.                                                                 *)
(***************************************************************************)
\* Python's None (never a string a caller passes).
PyNone == "<None>"

\* chart.py 87-90
valid_x_axis_types == <<"linear", "log", "datetime", "categorical", "density">>
valid_y_axis_types == <<"linear", "log", "categorical", "density">>

Range(s) == {s[i] : i \in DOMAIN s}

\* Axis types a caller may pass: the documented ones and two that are not.
AxisTypeInputs == Range(valid_x_axis_types) \cup {"time", PyNone}

\* chart.py 64-69: the documented layouts.
Layouts == {"slide_100%", "slide_75%", "slide_50%", "slide_25%"}

\* Style(chart, layout).plot_width / plot_height: the pixel size of a layout.
PlotSize(layout) ==
    CASE layout = "slide_100%" -> <<960, 540>>
      [] layout = "slide_75%"  -> <<720, 540>>
      [] layout = "slide_50%"  -> <<480, 540>>
      [] OTHER                 -> <<480, 270>>

\* style._get_settings('subtitle')['subtitle_location']
subtitle_location == "above"

\* Default texts (chart.py 116, 159, 175).
TitlePlaceholder    == "ch.set_title('Takeaway')"
SubtitlePlaceholder == "ch.set_subtitle('Data Description')"
SourcePlaceholder   == "ch.set_source_label('Source')"

\* Texts a caller passes to the setters.
Texts == {"", "v"}

(***************************************************************************)
(* bokeh annotation objects.                                               *)
(***************************************************************************)
NewTitle(text) ==
    [kind |-> "Title", text |-> text, name |-> "", location |-> PyNone,
     orientation |-> PyNone, visible |-> TRUE, plot |-> PyNone]

NewLabel(text, name) ==
    [kind |-> "Label", text |-> text, name |-> name, location |-> PyNone,
     orientation |-> PyNone, visible |-> TRUE, plot |-> PyNone]

\* bokeh's Legend defaults: location 'top_right', orientation 'vertical'.
NewLegend ==
    [kind |-> "Legend", text |-> "", name |-> "", location |-> "top_right",
     orientation |-> "vertical", visible |-> TRUE, plot |-> PyNone]

(***************************************************************************)
(* The chart before construction, and the empty figure.                    *)
(***************************************************************************)
NoFigure ==
    [exists |-> FALSE, x_axis_type |-> PyNone, y_axis_type |-> PyNone,
     x_range |-> PyNone, y_range |-> PyNone,
     plot_width |-> 0, plot_height |-> 0,
     toolbar_location |-> PyNone, toolbar_logo |-> PyNone,
     title |-> 0, renderers |-> <<>>,
     panels |-> [above |-> <<>>, below |-> <<>>, left |-> <<>>, right |-> <<>>]]

NoChart ==
    [exists |-> FALSE, x_axis_type |-> PyNone, y_axis_type |-> PyNone,
     blank_labels |-> FALSE, layout |-> PyNone,
     source |-> 0, subtitle_glyph |-> 0]

NoState == [chart |-> NoChart, figure |-> NoFigure, objs |-> <<>>]

(***************************************************************************)
(* Plot.add_layout(obj, place): the object joins figure.renderers and, for *)
(* a side place, that side's panel list; its `plot` becomes the figure.    *)
(***************************************************************************)
add_layout(st, id, place) ==
    [st EXCEPT !.objs[id].plot = "figure",
               !.figure.renderers = Append(@, id),
               !.figure.panels = IF place = "center" THEN @
                                 ELSE [@ EXCEPT ![place] = Append(@, id)]]

\* chart.py 132-154
initialize_figure(st, x_axis_type, y_axis_type, size) ==
    LET xt == IF x_axis_type = "categorical" THEN "auto"
              ELSE IF x_axis_type = "density" THEN "linear" ELSE x_axis_type
        yt == IF y_axis_type = "categorical" THEN "auto"
              ELSE IF y_axis_type = "density" THEN "linear" ELSE y_axis_type
        tid == Len(st.objs) + 1
    IN  [st EXCEPT
           !.objs = Append(@, [NewTitle("") EXCEPT !.plot = "figure"]),
           !.figure = [NoFigure EXCEPT
                         !.exists = TRUE,
                         !.x_axis_type = xt, !.y_axis_type = yt,
                         !.x_range = IF x_axis_type = "categorical"
                                     THEN "[]" ELSE PyNone,
                         !.y_range = IF y_axis_type = "categorical"
                                     THEN "[]" ELSE PyNone,
                         !.plot_width = size[1], !.plot_height = size[2],
                         !.toolbar_location = "right",
                         !.toolbar_logo = "bokeh",
                         !.title = tid]]

\* chart.py 156-171; the result is the new state and the new glyph.
add_subtitle_to_figure(st, subtitle_text) ==
    LET t0 == IF subtitle_text = PyNone THEN SubtitlePlaceholder
              ELSE subtitle_text
        t1 == IF st.chart.blank_labels THEN "" ELSE t0
        id == Len(st.objs) + 1
        s1 == [st EXCEPT !.objs = Append(@, NewTitle(t1))]
    IN  [st |-> add_layout(s1, id, subtitle_location), glyph |-> id]

\* add_source_to_figure without the blank_labels test.
add_source_to_figure_always_placeholder(st) ==
    LET id == Len(st.objs) + 1
        s1 == [st EXCEPT !.objs = Append(@, NewLabel(SourcePlaceholder,
                                                     "subtitle"))]
    IN  [st |-> add_layout(s1, id, "center"), glyph |-> id]

\* chart.py 173-192
add_source_to_figure(st) ==
    LET t1 == IF st.chart.blank_labels THEN "" ELSE SourcePlaceholder
        id == Len(st.objs) + 1
        s1 == [st EXCEPT !.objs = Append(@, NewLabel(t1, "subtitle"))]
    IN  [st |-> add_layout(s1, id, "center"), glyph |-> id]

(***************************************************************************)
(* Getters and setters, chart.py 209-261.                                  *)
(***************************************************************************)
source_text(st) == st.objs[st.chart.source].text

set_source_label(st, source) ==
    [st EXCEPT !.objs[st.chart.source].text = source]

title(st) == st.objs[st.figure.title].text

set_title(st, t) ==
    [st EXCEPT !.objs[st.figure.title].text = t]

subtitle(st) == st.objs[st.chart.subtitle_glyph].text

\* set_subtitle writing to the figure's title instead of the subtitle glyph.
set_subtitle_on_title(st, t) ==
    [st EXCEPT !.objs[st.figure.title].text = t]

set_subtitle(st, t) ==
    [st EXCEPT !.objs[st.chart.subtitle_glyph].text = t]

(***************************************************************************)
(* Chart.__init__, chart.py 86-119.                                        *)
(***************************************************************************)
\* AxisTypeError with one list of valid types for both axes.
AxisTypeError_one_list(x_axis_type, y_axis_type) ==
    IF x_axis_type \notin Range(valid_x_axis_types)
    THEN [type |-> "ValueError", arg |-> "x_axis_type",
          options |-> valid_x_axis_types]
    ELSE IF y_axis_type \notin Range(valid_x_axis_types)
    THEN [type |-> "ValueError", arg |-> "y_axis_type",
          options |-> valid_x_axis_types]
    ELSE [type |-> "", arg |-> "", options |-> <<>>]

\* The ValueError of a rejected axis type; "" when both are accepted.
AxisTypeError(x_axis_type, y_axis_type) ==
    IF x_axis_type \notin Range(valid_x_axis_types)
    THEN [type |-> "ValueError", arg |-> "x_axis_type",
          options |-> valid_x_axis_types]
    ELSE IF y_axis_type \notin Range(valid_y_axis_types)
    THEN [type |-> "ValueError", arg |-> "y_axis_type",
          options |-> valid_y_axis_types]
    ELSE [type |-> "", arg |-> "", options |-> <<>>]

\* The chart a successful construction builds.
NewChart(blank_labels, layout, x_axis_type, y_axis_type) ==
    LET s0 == [NoState EXCEPT
                 !.chart = [NoChart EXCEPT
                              !.exists = TRUE,
                              !.x_axis_type = x_axis_type,
                              !.y_axis_type = y_axis_type,
                              !.blank_labels = blank_labels,
                              !.layout = layout]]
        s1 == initialize_figure(s0, x_axis_type, y_axis_type,
                                PlotSize(layout))
        r2 == add_source_to_figure(s1)
        s2 == [r2.st EXCEPT !.chart.source = r2.glyph]
        r3 == add_subtitle_to_figure(s2, PyNone)
        s3 == [r3.st EXCEPT !.chart.subtitle_glyph = r3.glyph,
                            !.figure.toolbar_logo = PyNone]
        t  == IF blank_labels THEN "" ELSE TitlePlaceholder
    IN  set_title(s3, t)

(***************************************************************************)
(* Chart.set_legend_location, chart.py 268-316.                            *)
(***************************************************************************)
\* figure.legend: the Legend objects among the renderers, in list order.
figure_legend(st) ==
    LET IsLegend(id) == st.objs[id].kind = "Legend"
    IN  SelectSeq(st.figure.renderers, IsLegend)

\* figure.legend.<attr> = value: set on every entry of figure.legend.
set_legend_attr(st, attr, value) ==
    LET ids == Range(figure_legend(st))
    IN  [st EXCEPT !.objs = [i \in DOMAIN @ |->
                                IF i \in ids THEN [@[i] EXCEPT ![attr] = value]
                                ELSE @[i]]]

\* list.index(x): the first position of x, 0 when x is not in the list
\* (Python raises ValueError).
Index(s, x) ==
    IF x \in Range(s) THEN CHOOSE i \in DOMAIN s :
                              s[i] = x /\ \A j \in 1..(i - 1) : s[j] # x
    ELSE 0

\* A pop that removes nothing.
Pop_nothing(s, i) == s

\* list.pop(i)
Pop(s, i) == SubSeq(s, 1, i - 1) \o SubSeq(s, i + 1, Len(s))

LegendWarning == "UserWarning: Legend location will not apply."

\* add_outside_legend that lays the legend out without setting its
\* orientation.
add_outside_legend_unoriented(st, legend_location, layout_location, o) ==
    LET s1 == set_legend_attr(st, "location", legend_location)
        lg == figure_legend(s1)
    IN  IF lg = <<>>
        THEN [st |-> s1, warnings |-> <<LegendWarning>>]
        ELSE LET new_legend == lg[1]
                 s2 == [s1 EXCEPT !.objs[new_legend].plot = PyNone]
             IN  [st |-> add_layout(s2, new_legend, layout_location),
                  warnings |-> <<>>]

\* chart.py 286-298
add_outside_legend(st, legend_location, layout_location, orientation) ==
    LET s1 == set_legend_attr(st, "location", legend_location)
        lg == figure_legend(s1)
    IN  IF lg = <<>>
        THEN [st |-> s1, warnings |-> <<LegendWarning>>]
        ELSE LET new_legend == lg[1]
                 s2 == [s1 EXCEPT !.objs[new_legend].plot = PyNone,
                                  !.objs[new_legend].orientation = orientation]
             IN  [st |-> add_layout(s2, new_legend, layout_location),
                  warnings |-> <<>>]

\* chart.py 300-316; the result is the new state, the warnings issued and
\* the error raised ("" when the call returns the chart).
set_legend_location(st, location, orientation) ==
    CASE location = "outside_top" ->
           LET r   == add_outside_legend(st, "top_left", "above", orientation)
               idx == Index(r.st.figure.renderers, r.st.chart.subtitle_glyph)
           IN  IF idx = 0
               THEN [st |-> r.st, warnings |-> r.warnings,
                     error |-> "ValueError"]
               ELSE LET s1 == [r.st EXCEPT !.figure.renderers = Pop(@, idx)]
                        r2 == add_subtitle_to_figure(s1, subtitle(s1))
                    IN  [st |-> [r2.st EXCEPT
                                   !.chart.subtitle_glyph = r2.glyph],
                         warnings |-> r.warnings, error |-> ""]
      [] location = "outside_bottom" ->
           LET r == add_outside_legend(st, "bottom_center", "below",
                                       orientation)
           IN  [st |-> r.st, warnings |-> r.warnings, error |-> ""]
      [] location = "outside_right" ->
           LET r == add_outside_legend(st, "top_left", "right", orientation)
           IN  [st |-> r.st, warnings |-> r.warnings, error |-> ""]
      [] location = PyNone ->
           [st |-> set_legend_attr(st, "visible", FALSE),
            warnings |-> <<>>, error |-> ""]
      [] OTHER ->
           [st |-> set_legend_attr(
                     set_legend_attr(st, "location", location),
                     "orientation", orientation),
            warnings |-> <<>>, error |-> ""]

\* Plotting data with a legend (the plot methods of chart.plot): bokeh
\* creates the figure's Legend on first use and lays it out in the center.
add_legend(st) ==
    LET id == Len(st.objs) + 1
        s1 == [st EXCEPT !.objs = Append(@, NewLegend)]
    IN  add_layout(s1, id, "center")

\* Locations a caller passes: None, the three outside names, a name inside
\* the plot area, and a coordinate pair (an opaque value here).
Locations == {PyNone, "outside_top", "outside_bottom", "outside_right",
              "top_left", "(10, 20)"}

Orientations == {"horizontal", "vertical"}

VARIABLES
    chart,      \* the Chart object's own fields
    figure,     \* chart.figure, the bokeh figure
    objs,       \* the heap of bokeh annotation objects
    ctor,       \* the constructor call: its arguments and its error
    last,       \* what the last labelling or legend call raised and warned
    pc,         \* the statement of _figure_to_png to run next, or "idle"
    call,       \* the current (or last) show / save call
    run,        \* the locals and resources of that call's _figure_to_png
    out         \* what that call displayed, wrote and printed

vars == <<chart, figure, objs, ctor, last, pc, call, run, out>>

exportvars == <<pc, call, run, out>>

State == [chart |-> chart, figure |-> figure, objs |-> objs]

NoError == [type |-> "", arg |-> "", options |-> <<>>]

NoCtor == [called |-> FALSE, blank_labels |-> FALSE, layout |-> PyNone,
           x_axis_type |-> PyNone, y_axis_type |-> PyNone, error |-> NoError]

Outcome(error, warnings) == [error |-> error, warnings |-> warnings]

Install(st) ==
    /\ chart' = st.chart
    /\ figure' = st.figure
    /\ objs' = st.objs

\* Chart(blank_labels, layout, x_axis_type, y_axis_type)
Construct(blank_labels, layout, x_axis_type, y_axis_type) ==
    LET err == AxisTypeError(x_axis_type, y_axis_type)
        st  == IF err.type = ""
               THEN NewChart(blank_labels, layout, x_axis_type, y_axis_type)
               ELSE NoState
    IN  /\ ~ctor.called
        /\ ctor' = [called |-> TRUE, blank_labels |-> blank_labels,
                    layout |-> layout, x_axis_type |-> x_axis_type,
                    y_axis_type |-> y_axis_type, error |-> err]
        /\ Install(st)
        /\ UNCHANGED <<last, exportvars>>

WithinBounds(st) ==
    /\ Len(st.objs) <= MaxObjects
    /\ Len(st.figure.renderers) <= MaxRenderers

SetTitle(v) ==
    /\ chart.exists
    /\ Install(set_title(State, v))
    /\ last' = Outcome("", <<>>)
    /\ UNCHANGED <<ctor, exportvars>>

SetSubtitle(v) ==
    /\ chart.exists
    /\ Install(set_subtitle(State, v))
    /\ last' = Outcome("", <<>>)
    /\ UNCHANGED <<ctor, exportvars>>

SetSourceLabel(v) ==
    /\ chart.exists
    /\ Install(set_source_label(State, v))
    /\ last' = Outcome("", <<>>)
    /\ UNCHANGED <<ctor, exportvars>>

SetLegendLocation(location, orientation) ==
    LET r == set_legend_location(State, location, orientation)
    IN  /\ chart.exists
        /\ WithinBounds(r.st)
        /\ Install(r.st)
        /\ last' = Outcome(r.error, r.warnings)
        /\ UNCHANGED <<ctor, exportvars>>

PlotData ==
    /\ chart.exists
    /\ figure_legend(State) = <<>>
    /\ WithinBounds(add_legend(State))
    /\ Install(add_legend(State))
    /\ last' = Outcome("", <<>>)
    /\ UNCHANGED <<ctor, exportvars>>

(***************************************************************************)
(* show / save and the PNG export, chart.py 318-426.                       *)
(***************************************************************************)
\* Formats a caller passes: the two valid ones, None, and two invalid ones.
Formats == {"html", "png", PyNone, "svg", "PNG"}

Filenames == {"chart.html", "chart.png"}

NoCall ==
    [op |-> "", format |-> "", filename |-> "", toolbar0 |-> PyNone,
     status |-> "none", error |-> ""]

NoImage == [size |-> <<0, 0>>, resampled |-> FALSE]

\* No document: an empty file, a blank page.
NoHtml == [toolbar_location |-> PyNone, width |-> 0, height |-> 0]

\* Before webdriver.Chrome(...): no browser, no temporary file.
NoRun ==
    [window |-> <<0, 0>>, browser |-> "none", page |-> NoHtml,
     margin |-> "default", html |-> NoHtml, tmp |-> "none",
     buffer |-> NoHtml, disk |-> NoHtml, png |-> <<0, 0>>,
     image |-> NoImage, log |-> <<>>]

NoOut == [displayed |-> <<>>, written |-> {}, stdout |-> <<>>]

\* _set_toolbar_for_format treating every unknown format as 'png'.
set_toolbar_for_format_lenient(st, format) ==
    IF format = "html"
    THEN [st |-> [st EXCEPT !.figure.toolbar_location = "right"],
          error |-> ""]
    ELSE IF format = PyNone
    THEN [st |-> st, error |-> ""]
    ELSE [st |-> [st EXCEPT !.figure.toolbar_location = PyNone],
          error |-> ""]

\* chart.py 381-390
set_toolbar_for_format(st, format) ==
    IF format = "html"
    THEN [st |-> [st EXCEPT !.figure.toolbar_location = "right"],
          error |-> ""]
    ELSE IF format = "png"
    THEN [st |-> [st EXCEPT !.figure.toolbar_location = PyNone],
          error |-> ""]
    ELSE IF format = PyNone
    THEN [st |-> st, error |-> ""]
    ELSE [st |-> st, error |-> "ValueError"]

\* file_html(figure, resources=INLINE, title=""): the document shows the
\* figure as it is now.
file_html(fig) ==
    [toolbar_location |-> fig.toolbar_location,
     width |-> fig.plot_width, height |-> fig.plot_height]

\* _figure_to_png without fp.close().
NextPc_no_close(p) ==
    CASE p = "launch"     -> "render"
      [] p = "render"     -> "tempfile"
      [] p = "tempfile"   -> "write"
      [] p = "write"      -> "flush"
      [] p = "flush"      -> "get"
      [] p = "get"        -> "script"
      [] p = "script"     -> "screenshot"
      [] p = "screenshot" -> "quit"
      [] p = "quit"       -> "image"
      [] OTHER            -> "deliver"

\* The statement order of _figure_to_png, chart.py 408-426.
NextPc(p) ==
    CASE p = "launch"     -> "render"
      [] p = "render"     -> "tempfile"
      [] p = "tempfile"   -> "write"
      [] p = "write"      -> "flush"
      [] p = "flush"      -> "get"
      [] p = "get"        -> "script"
      [] p = "script"     -> "screenshot"
      [] p = "screenshot" -> "quit"
      [] p = "quit"       -> "close"
      [] p = "close"      -> "image"
      [] OTHER            -> "deliver"

\* Image.open(...) alone: the screenshot is never resized.
resize_never(size, target_dimensions) ==
    [size |-> size, resampled |-> FALSE]

\* chart.py 421-426: Image.open(BytesIO(png)), resized if necessary.
resize_if_necessary(size, target_dimensions) ==
    IF size # target_dimensions
    THEN [size |-> target_dimensions, resampled |-> TRUE]
    ELSE [size |-> size, resampled |-> FALSE]

target_dimensions == <<figure.plot_width, figure.plot_height>>

NewCall(op, filename, format) ==
    [op |-> op, format |-> format, filename |-> filename,
     toolbar0 |-> figure.toolbar_location, status |-> "running",
     error |-> ""]

Returned(c) == [c EXCEPT !.status = "returned"]

Raised(c, e) == [c EXCEPT !.status = "raised", !.error = e]

\* chart.show(format), chart.py 335-343, up to the call of _figure_to_png.
Show(format) ==
    LET r == set_toolbar_for_format(State, format)
        c == NewCall("show", "", format)
    IN  /\ chart.exists
        /\ pc = "idle"
        /\ figure' = r.st.figure
        /\ run' = NoRun
        /\ IF r.error # ""
           THEN /\ pc' = "idle"
                /\ call' = Raised(c, r.error)
                /\ out' = NoOut
           ELSE IF format = "html"
           THEN /\ pc' = "idle"
                /\ call' = Returned(c)
                /\ out' = [NoOut EXCEPT !.displayed =
                             <<[kind |-> "html", size |-> <<0, 0>>]>>]
           ELSE IF format = "png"
           THEN /\ pc' = "launch"
                /\ call' = c
                /\ out' = NoOut
           ELSE /\ pc' = "idle"
                /\ call' = Returned(c)
                /\ out' = NoOut
        /\ UNCHANGED <<chart, objs, ctor, last>>

\* chart.save(filename, format), chart.py 363-379, up to the call of
\* _figure_to_png.
Save(filename, format) ==
    LET r == set_toolbar_for_format(State, format)
        c == NewCall("save", filename, format)
    IN  /\ chart.exists
        /\ pc = "idle"
        /\ figure' = r.st.figure
        /\ run' = NoRun
        /\ IF r.error # ""
           THEN /\ pc' = "idle"
                /\ call' = Raised(c, r.error)
                /\ out' = NoOut
           ELSE IF format = "html"
           THEN /\ pc' = "idle"
                /\ call' = Returned(c)
                /\ out' = [NoOut EXCEPT
                             !.written = {[name |-> filename,
                                           kind |-> "html",
                                           size |-> <<0, 0>>]},
                             !.stdout = <<[msg |-> "Saved to",
                                           filename |-> filename]>>]
           ELSE IF format = "png"
           THEN /\ pc' = "launch"
                /\ call' = c
                /\ out' = NoOut
           ELSE /\ pc' = "idle"
                /\ call' = Returned(c)
                /\ out' = [NoOut EXCEPT
                             !.stdout = <<[msg |-> "Saved to",
                                           filename |-> filename]>>]
        /\ UNCHANGED <<chart, objs, ctor, last>>

\* One statement of _figure_to_png: it leaves the locals as newrun and is
\* entered in the log.
Step(label, newrun) ==
    /\ pc = label
    /\ run' = [newrun EXCEPT !.log = Append(@, label)]
    /\ pc' = NextPc(pc)
    /\ UNCHANGED <<chart, figure, objs, ctor, last, call, out>>

\* A statement raises: the exception leaves show / save, nothing is
\* cleaned up.
Raise(label, e) ==
    /\ pc = label
    /\ pc' = "idle"
    /\ call' = Raised(call, e)
    /\ UNCHANGED <<chart, figure, objs, ctor, last, run, out>>

\* chart.py 398-408: webdriver.Chrome(options=options)
LaunchBrowser ==
    Step("launch", [run EXCEPT !.browser = "running",
                               !.window = target_dimensions])

LaunchFails == Raise("launch", "WebDriverException")

\* chart.py 410
RenderHtml == Step("render", [run EXCEPT !.html = file_html(figure)])

\* chart.py 411-412: tempfile.NamedTemporaryFile(...)
CreateTempFile == Step("tempfile", [run EXCEPT !.tmp = "open"])

\* chart.py 413: fp.write(html)
WriteHtml == Step("write", [run EXCEPT !.buffer = run.html])

\* chart.py 414: fp.flush()
FlushHtml == Step("flush", [run EXCEPT !.disk = run.buffer])

\* chart.py 416: driver.get("file:///" + fp.name) loads what the file holds.
Navigate ==
    /\ run.browser = "running"
    /\ Step("get", [run EXCEPT !.page = run.disk])

NavigateFails == Raise("get", "WebDriverException")

\* chart.py 417
StripMargin ==
    /\ run.browser = "running"
    /\ Step("script", [run EXCEPT !.margin = "0px"])

\* chart.py 418: the screenshot's size is the browser's choice.
Screenshot ==
    /\ run.browser = "running"
    /\ \E k1 \in 1..MaxScale, k2 \in 1..MaxScale :
          Step("screenshot",
               [run EXCEPT !.png = <<k1 * run.window[1],
                                     k2 * run.window[2]>>])

ScreenshotFails == Raise("screenshot", "WebDriverException")

\* chart.py 419: driver.quit()
QuitBrowser == Step("quit", [run EXCEPT !.browser = "quit"])

\* chart.py 420: fp.close() deletes the temporary file.
CloseTempFile == Step("close", [run EXCEPT !.tmp = "deleted"])

\* chart.py 421-426
OpenImage ==
    Step("image", [run EXCEPT !.image =
                     resize_if_necessary(run.png, target_dimensions)])

\* chart.py 343 (display(image)) and 375-379 (image.save, print, return).
Deliver ==
    /\ pc = "deliver"
    /\ pc' = "idle"
    /\ call' = Returned(call)
    /\ out' = IF call.op = "show"
              THEN [out EXCEPT !.displayed =
                      <<[kind |-> "png", size |-> run.image.size]>>]
              ELSE [out EXCEPT
                      !.written = {[name |-> call.filename, kind |-> "png",
                                    size |-> run.image.size]},
                      !.stdout = <<[msg |-> "Saved to",
                                    filename |-> call.filename]>>]
    /\ UNCHANGED <<chart, figure, objs, ctor, last, run>>

(***************************************************************************)
(* Specifications.                                                         *)
(***************************************************************************)
\* No show or save call was made yet.
ExportIdle ==
    /\ pc = "idle"
    /\ call = NoCall
    /\ run = NoRun
    /\ out = NoOut

InitCtor ==
    /\ chart = NoChart
    /\ figure = NoFigure
    /\ objs = <<>>
    /\ ctor = NoCtor
    /\ last = Outcome("", <<>>)
    /\ ExportIdle

NextCtor ==
    \E b \in BOOLEAN, l \in Layouts, x \in AxisTypeInputs, y \in AxisTypeInputs :
        Construct(b, l, x, y)

\* Construction alone, over every argument combination.
SpecCtor == InitCtor /\ [][NextCtor]_vars

\* The state right after Chart(blank_labels, layout, x_axis_type,
\* y_axis_type) returned.
Constructed(b, l, x, y) ==
    LET st == NewChart(b, l, x, y)
    IN  /\ chart = st.chart
        /\ figure = st.figure
        /\ objs = st.objs
        /\ ctor = [called |-> TRUE, blank_labels |-> b, layout |-> l,
                   x_axis_type |-> x, y_axis_type |-> y, error |-> NoError]
        /\ last = Outcome("", <<>>)
        /\ ExportIdle

\* The labelling and legend methods on a chart, blank_labels or not.
Init == \E b \in BOOLEAN : Constructed(b, "slide_100%", "linear", "linear")

Next ==
    \/ \E v \in Texts : SetTitle(v)
    \/ \E v \in Texts : SetSubtitle(v)
    \/ \E v \in Texts : SetSourceLabel(v)
    \/ \E l \in Locations, o \in Orientations : SetLegendLocation(l, o)
    \/ PlotData

Spec == Init /\ [][Next]_vars

\* show and save on a chart of each layout.
InitExport ==
    \E l \in Layouts : Constructed(FALSE, l, "linear", "linear")

NextExport ==
    \/ \E f \in Formats : Show(f)
    \/ \E n \in Filenames, f \in Formats : Save(n, f)
    \/ LaunchBrowser
    \/ LaunchFails
    \/ RenderHtml
    \/ CreateTempFile
    \/ WriteHtml
    \/ FlushHtml
    \/ Navigate
    \/ NavigateFails
    \/ StripMargin
    \/ Screenshot
    \/ ScreenshotFails
    \/ QuitBrowser
    \/ CloseTempFile
    \/ OpenImage
    \/ Deliver

SpecExport == InitExport /\ [][NextExport]_vars

(***************************************************************************)
(* Properties of construction (SpecCtor).                                  *)
(***************************************************************************)
\* C3: construction succeeds exactly when x_axis_type is one of linear,
\* log, datetime, categorical, density and y_axis_type one of linear, log,
\* categorical, density; otherwise it raises a ValueError that lists the
\* valid types of the offending axis, the x axis being checked first, and
\* neither a figure nor a sub-object exists.
C3_AxisTypesValidated ==
    LET X == {"linear", "log", "datetime", "categorical", "density"}
        Y == {"linear", "log", "categorical", "density"}
        x == ctor.x_axis_type
        y == ctor.y_axis_type
    IN  ctor.called =>
          /\ (ctor.error.type = "") <=> (x \in X /\ y \in Y)
          /\ x \notin X =>
               /\ ctor.error.type = "ValueError"
               /\ ctor.error.arg = "x_axis_type"
               /\ Range(ctor.error.options) = X
          /\ (x \in X /\ y \notin Y) =>
               /\ ctor.error.type = "ValueError"
               /\ ctor.error.arg = "y_axis_type"
               /\ Range(ctor.error.options) = Y
          /\ ctor.error.type # "" =>
               /\ ~chart.exists
               /\ ~figure.exists
               /\ objs = <<>>
          /\ ctor.error.type = "" =>
               /\ chart.exists
               /\ figure.exists

\* A datetime y axis was rejected although the x axis was valid.
C3_Witness ==
    /\ ctor.called
    /\ ctor.x_axis_type = "datetime"
    /\ ctor.y_axis_type = "datetime"
    /\ ctor.error.arg = "y_axis_type"

\* C5: right after construction a chart built with blank_labels has an
\* empty title, subtitle and source text, whatever the axis types and the
\* layout; a chart built without it has the three placeholder texts.
C5_BlankLabels ==
    (ctor.called /\ ctor.error.type = "") =>
        IF ctor.blank_labels
        THEN /\ title(State) = ""
             /\ subtitle(State) = ""
             /\ source_text(State) = ""
        ELSE /\ title(State) = "ch.set_title('Takeaway')"
             /\ subtitle(State) = "ch.set_subtitle('Data Description')"
             /\ source_text(State) = "ch.set_source_label('Source')"

C5_Witness ==
    /\ ctor.called
    /\ ctor.blank_labels
    /\ ctor.x_axis_type = "categorical"
    /\ ctor.layout = "slide_25%"
    /\ chart.exists
    /\ source_text(State) = ""

(***************************************************************************)
(* Properties of the labelling and legend methods (Spec).                  *)
(***************************************************************************)
\* C4: after set_title(v) the title reads v, after set_subtitle(v) the
\* subtitle reads v, after set_source_label(v) the source text reads v, and
\* each setter leaves the other two texts as they were.
C4_SettersReadBack ==
    [][\A v \in Texts :
         /\ SetTitle(v) =>
              /\ title(State)' = v
              /\ subtitle(State)' = subtitle(State)
              /\ source_text(State)' = source_text(State)
         /\ SetSubtitle(v) =>
              /\ subtitle(State)' = v
              /\ title(State)' = title(State)
              /\ source_text(State)' = source_text(State)
         /\ SetSourceLabel(v) =>
              /\ source_text(State)' = v
              /\ title(State)' = title(State)
              /\ subtitle(State)' = subtitle(State)]_vars

\* The three setters have acted on a chart that started with placeholders.
C4_Witness ==
    /\ ~chart.blank_labels
    /\ title(State) = "v"
    /\ subtitle(State) = ""
    /\ source_text(State) = "v"

InPanel(st, place, id) == id \in Range(st.figure.panels[place])

C8_WarnsWithoutLegend ==
    [][\A l \in Locations \ {PyNone}, o \in Orientations :
         (SetLegendLocation(l, o) /\ figure_legend(State) = <<>>) =>
            /\ last'.warnings # <<>>
            /\ last'.error = ""]_vars

\* C10: set_legend_location leaves the title, the subtitle and the source
\* text as they were, for every location and every chart.
C10_LegendLocationKeepsTexts ==
    [][\A l \in Locations, o \in Orientations :
         SetLegendLocation(l, o) =>
            /\ title(State)' = title(State)
            /\ subtitle(State)' = subtitle(State)
            /\ source_text(State)' = source_text(State)]_vars

(***************************************************************************)
(* Properties of show / save and the PNG export (SpecExport).              *)
(***************************************************************************)
\* _figure_to_png has returned normally: show / save is about to use the
\* image, or has returned after using it.
PngExported ==
    /\ call.format = "png"
    /\ (pc = "deliver" \/ call.status = "returned")

\* C1: the image _figure_to_png returns, and so the image show('png')
\* displays and save(filename, 'png') writes, is exactly plot_width x
\* plot_height pixels whatever the size of the screenshot: resized when the
\* screenshot's size differs, the screenshot as it is when it matches.
C1_PngHasChartSize ==
    PngExported =>
        LET target == <<figure.plot_width, figure.plot_height>>
        IN  /\ target = PlotSize(chart.layout)
            /\ run.image.size = target
            /\ run.image.resampled <=> (run.png # target)
            /\ \A d \in Range(out.displayed) : d.size = target
            /\ \A w \in out.written : w.size = target

\* A screenshot of another size was saved at the chart's size.
C1_Witness ==
    /\ call.status = "returned"
    /\ call.op = "save"
    /\ run.png # <<figure.plot_width, figure.plot_height>>
    /\ \E w \in out.written :
          /\ w.kind = "png"
          /\ w.size = <<figure.plot_width, figure.plot_height>>

CallEnded == call.status \in {"returned", "raised"}

\* C2 as stated: every format other than 'html' and 'png' makes show / save
\* raise ValueError, with nothing displayed, written or printed and the
\* toolbar location as it was.
C2_EveryOtherFormatRejected ==
    (CallEnded /\ call.format \notin {"html", "png"}) =>
        /\ call.status = "raised"
        /\ call.error = "ValueError"
        /\ out.displayed = <<>>
        /\ out.written = {}
        /\ out.stdout = <<>>
        /\ figure.toolbar_location = call.toolbar0

\* C2, amended: every format other than 'html', 'png' and None makes show /
\* save raise ValueError, with nothing displayed, written or printed and
\* the toolbar location as it was; format None raises nothing, displays
\* and writes nothing and leaves the toolbar location as it was.
C2_InvalidFormatRejected ==
    CallEnded =>
        /\ call.format \notin {"html", "png", PyNone} =>
             /\ call.status = "raised"
             /\ call.error = "ValueError"
             /\ out.displayed = <<>>
             /\ out.written = {}
             /\ out.stdout = <<>>
             /\ figure.toolbar_location = call.toolbar0
        /\ call.format = PyNone =>
             /\ call.status = "returned"
             /\ out.displayed = <<>>
             /\ out.written = {}
             /\ figure.toolbar_location = call.toolbar0

\* save with an invalid format was rejected on a figure whose toolbar an
\* earlier png export had hidden.
C2_Witness ==
    /\ call.status = "raised"
    /\ call.error = "ValueError"
    /\ call.op = "save"
    /\ call.format = "svg"
    /\ figure.toolbar_location = PyNone

\* C9: a PNG export that returns normally launched the browser once, wrote
\* and flushed the HTML before the browser navigated to the file (so the
\* browser loaded that HTML), took the screenshot before quitting the
\* browser, has quit the browser and deleted the temporary file, and ran
\* no statement twice.
C9_ExportOrderAndCleanup ==
    PngExported =>
        LET Count(e) == LET Is(x) == x = e
                        IN  Len(SelectSeq(run.log, Is))
            Pos(e) == IF Count(e) = 0 THEN 0
                      ELSE CHOOSE i \in DOMAIN run.log : run.log[i] = e
        IN  /\ \A e \in Range(run.log) : Count(e) = 1
            /\ Count("launch") = 1
            /\ 0 < Pos("write")
            /\ Pos("write") < Pos("flush")
            /\ Pos("flush") < Pos("get")
            /\ 0 < Pos("screenshot")
            /\ Pos("screenshot") < Pos("quit")
            /\ 0 < Pos("close")
            /\ run.page = file_html(figure)
            /\ run.browser = "quit"
            /\ run.tmp = "deleted"

\* show('png') has returned.
C9_Witness ==
    /\ call.status = "returned"
    /\ call.op = "show"
    /\ call.format = "png"
    /\ out.displayed # <<>>

====
